---- MODULE Spec2Model ----
(***************************************************************************)
(* Fund accounting and the subsidized residential developer of             *)
(* subsidies.py: tax_buildings, add_obag_funds, calculate_vmt_fees,        *)
(* run_subsidized_developer and the orca steps that call them.             *)
(*                                                                         *)
(* Four specifications share the definitions:                              *)
(*   SpecTax  collects the property tax with tax_buildings, once a year;   *)
(*   SpecFn   calls run_subsidized_developer on an account that holds the  *)
(*            revenue of one tax_buildings call, with several subaccounts; *)
(*   Spec     runs the orca steps of the VMT and OBAG programs against the *)
(*            coffer, in any order, over the simulation years;             *)
(*   SpecVmt  runs the steps of the VMT fee program alone.                 *)
(***************************************************************************)
EXTENDS Integers, Sequences, FiniteSets, TLC

VARIABLES
    coffer,         \* account name -> transaction log (sequence of transactions)
    feasibility,    \* the "feasibility" table: parcel id -> row; <<>> before it exists
    acct_settings,  \* settings["acct_settings"]
    parcel_output,  \* summary.parcel_output: sequence of building records
    year,           \* the simulation year
    last            \* record of the last step or call (what it read, passed on, posted)

vars == <<coffer, feasibility, acct_settings, parcel_output, year, last>>

----------------------------------------------------------------------------
(* Bounds of the model *)

NumParcels == 2      \* parcels (rows of the feasibility table)
NumBuildings == 2    \* buildings handed to one call of tax_buildings
MaxTxns == 3         \* transactions kept in one account's log
MaxYear == 2         \* last simulated year (the first is 1)

Parcels == 1..NumParcels

----------------------------------------------------------------------------
(* Floating point values as pandas holds them: a number, +-inf or NaN *)

Num(v) == [k |-> "num", v |-> v]
NaN == [k |-> "nan", v |-> 0]
PosInf == [k |-> "inf", v |-> 1]
NegInf == [k |-> "inf", v |-> -1]

\* x < 0 on a float column: NaN compares False, -inf compares True
LtZero(x) == x.k # "nan" /\ x.v < 0

\* F applied to the value of v, v evaluated once
With(v, F(_)) == CHOOSE y \in {F(u) : u \in {v}} : TRUE

RECURSIVE SumSeq(_)
SumSeq(s) == IF s = <<>> THEN 0 ELSE Head(s) + SumSeq(Tail(s))

----------------------------------------------------------------------------
(* urbansim.accounts.Account, as subsidies.py uses it *)

Transaction(amt, subacct, md) == [amount |-> amt, subaccount |-> subacct, metadata |-> md]

\* account.add_transaction(amt, subaccount=..., metadata=...)
add_transaction(log, amt, subacct, md) == Append(log, Transaction(amt, subacct, md))

\* account.total_transactions_by_subacct(subacct)
total_transactions_by_subacct(log, subacct) ==
    SumSeq([i \in 1..Len(log) |->
              IF log[i].subaccount = subacct THEN log[i].amount ELSE 0])

\* the subaccounts of the log, each once, in the order of their first transaction
all_subaccounts(log) ==
    LET first(i) == \A j \in 1..(i - 1) : log[j].subaccount # log[i].subaccount
        idx == SelectSeq([i \in 1..Len(log) |-> i], first)
    IN  [n \in 1..Len(idx) |-> log[idx[n]].subaccount]

\* account.iter_subaccounts() at one moment: <<subaccount, balance>> pairs
iter_subaccounts(log) ==
    LET sas == all_subaccounts(log)
    IN  [n \in 1..Len(sas) |->
            [subacct |-> sas[n], amount |-> total_transactions_by_subacct(log, sas[n])]]

----------------------------------------------------------------------------
(* Static parcel data: parcels.ave_sqft_per_unit and the parcels_geography  *)
(* columns joined to the feasibility table.                                 *)

ave_sqft_per_unit(p) == 2
juris(p) == IF p % 2 = 0 THEN 2 ELSE 1
zone(p) == p # 1
vmt_res_cat(p) == IF p % 2 = 0 THEN "M" ELSE "S"

\* rows a feasibility run can produce for parcel p: three that need a subsidy
\* (costs 1, 2, 3; subsidy per unit -1, -1, -3/2) and two that step 2 or step 3B
\* must drop (no added unit and zero profit on odd parcels, -inf and NaN profit
\* on even ones)
FeasibilityRows(p) ==
    { [max_profit |-> Num(-1), residential_sqft |-> 3, total_residential_units |-> 0],
      [max_profit |-> Num(-2), residential_sqft |-> 5, total_residential_units |-> 1],
      [max_profit |-> Num(-3), residential_sqft |-> 4, total_residential_units |-> 0] }
    \cup
    IF p % 2 = 1
    THEN { [max_profit |-> Num(-1), residential_sqft |-> 3, total_residential_units |-> 1],
           [max_profit |-> Num(0),  residential_sqft |-> 4, total_residential_units |-> 0] }
    ELSE { [max_profit |-> NegInf,  residential_sqft |-> 4, total_residential_units |-> 0],
           [max_profit |-> NaN,     residential_sqft |-> 4, total_residential_units |-> 0] }

\* the tables a feasibility run can produce
FeasibilityTables ==
    {t \in [Parcels -> UNION {FeasibilityRows(p) : p \in Parcels}] :
        \A p \in Parcels : t[p] \in FeasibilityRows(p)}

----------------------------------------------------------------------------
(* run_subsidized_developer *)

\* step 2, first line: feasibility.replace([np.inf, -np.inf], np.nan)
ReplaceInf(x) == IF x.k = "inf" THEN NaN ELSE x

\* Unprofitable without the replacement of +-inf by NaN
UnprofitableInfKept(feas) == {p \in DOMAIN feas : LtZero(feas[p].max_profit)}

\* step 2: feasibility[feasibility.max_profit < 0] after the replacement
Unprofitable(feas) ==
    {p \in DOMAIN feas : LtZero(ReplaceInf(feas[p].max_profit))}

\* step 3: np.floor(residential_sqft / ave_sqft_per_unit)
residential_units(feas, p) == feas[p].residential_sqft \div ave_sqft_per_unit(p)

\* step 3B: residential_units > total_residential_units
AddsUnits(feas, S) ==
    {p \in S : residential_units(feas, p) > feas[p].total_residential_units}

\* step 5: the optional receiving_buildings_filter
ReceivingZone(settings, S) ==
    IF settings.receiving_buildings_filter = "zone" THEN {p \in S : zone(p)} ELSE S

\* feasibility.eval(sending_buildings_subaccount_def); "regional" is the column of 1s
subaccount(settings, p) ==
    IF settings.sending_buildings_subaccount_def = "juris" THEN juris(p) ELSE 1

\* the rows left after steps 2 to 5
Candidates(feas, settings) == ReceivingZone(settings, AddsUnits(feas, Unprofitable(feas)))

\* step 4 and 7: subsidy_per_unit of p is larger (less negative) than that of q;
\* max_profit / residential_units compared exactly, residential_units > 0
HigherSubsidyPerUnit(feas, p, q) ==
    feas[p].max_profit.v * residential_units(feas, q)
        > feas[q].max_profit.v * residential_units(feas, p)

SameSubsidyPerUnit(feas, p, q) ==
    feas[p].max_profit.v * residential_units(feas, q)
        = feas[q].max_profit.v * residential_units(feas, p)

\* SortBySubsidyPerUnit with ascending=True
SortBySubsidyPerUnitAscending(feas, S) ==
    LET before(q, p) == \/ HigherSubsidyPerUnit(feas, p, q)
                        \/ SameSubsidyPerUnit(feas, q, p) /\ q < p
        rank(p) == 1 + Cardinality({q \in S : before(q, p)})
    IN  [i \in 1..Cardinality(S) |-> CHOOSE p \in S : rank(p) = i]

\* step 7: df.sort(columns=['subsidy_per_unit'], ascending=False); rows with equal
\* keys keep the order of the table
SortBySubsidyPerUnit(feas, S) ==
    LET before(q, p) == \/ HigherSubsidyPerUnit(feas, q, p)
                        \/ SameSubsidyPerUnit(feas, q, p) /\ q < p
        rank(p) == 1 + Cardinality({q \in S : before(q, p)})
    IN  [i \in 1..Cardinality(S) |-> CHOOSE p \in S : rank(p) = i]

\* step 8: (-1*df.max_profit).cumsum() at position i
CumCost(feas, df, i) == SumSeq([j \in 1..i |-> -feas[df[j]].max_profit.v])

\* NumBldgs without the cut at the balance
NumBldgsNoCut(feas, df, amount) == Len(df)

\* step 8: searchsorted(amount), side 'left': the entries strictly below amount
NumBldgs(feas, df, amount) ==
    Cardinality({i \in 1..Len(df) : CumCost(feas, df, i) < amount})

\* a row of the frame utils.run_developer returns: the candidate built on parcel p,
\* its max_profit unchanged, under a new building id
NewBuilding(feas, p, id, yr) ==
    [building_id |-> id, parcel_id |-> p, max_profit |-> feas[p].max_profit.v,
     residential_units |-> residential_units(feas, p), year_built |-> yr,
     vmt_res_cat |-> vmt_res_cat(p)]

\* step 9: utils.run_developer on the selected rows df, the buildings table
\* holding nbuildings rows. It builds the rows that demand absorbs; with nothing
\* to build it returns an empty frame, with no demand at all None.
run_developer(feas, df, nbuildings, ctx) ==
    LET absorbed(p) == p \in ctx.demand
        rows == SelectSeq(df, absorbed)
    IN  IF ctx.demand = {}
        THEN [none |-> TRUE, rows |-> <<>>]
        ELSE [none |-> FALSE,
              rows |-> [i \in 1..Len(rows) |->
                          NewBuilding(feas, rows[i], nbuildings + i, ctx.year)]]

\* BookSubsidies on the regional subaccount 1 whatever subacct is
BookSubsidiesRegional(rows, subacct, yr) ==
    [i \in 1..Len(rows) |->
        Transaction(rows[i].max_profit, 1,
                    [description |-> "Developing subsidized building", year |-> yr,
                     residential_units |-> rows[i].residential_units,
                     building_id |-> rows[i].building_id])]

\* BookSubsidies with the amount's sign lost
BookSubsidiesCredit(rows, subacct, yr) ==
    [i \in 1..Len(rows) |->
        Transaction(-rows[i].max_profit, subacct,
                    [description |-> "Developing subsidized building", year |-> yr,
                     residential_units |-> rows[i].residential_units,
                     building_id |-> rows[i].building_id])]

\* step 10: one transaction per new building, amt = new_building.max_profit
BookSubsidies(rows, subacct, yr) ==
    [i \in 1..Len(rows) |->
        Transaction(rows[i].max_profit, subacct,
                    [description |-> "Developing subsidized building", year |-> yr,
                     residential_units |-> rows[i].residential_units,
                     building_id |-> rows[i].building_id])]

\* one pass of the loop of step 6 (lines 227-290) for subaccount subacct, the
\* account's log being log when iter_subaccounts yields it
SubaccountPass(log, subacct, nbuildings, ctx) ==
    With(total_transactions_by_subacct(log, subacct), LAMBDA amount :
    With(SortBySubsidyPerUnit(ctx.feas,
            {p \in ctx.cands : subaccount(ctx.settings, p) = subacct}), LAMBDA df :
    With(IF Len(df) = 0 THEN 0 ELSE NumBldgs(ctx.feas, df, amount), LAMBDA num_bldgs :
    With(IF num_bldgs = 0 THEN [none |-> TRUE, rows |-> <<>>]
         ELSE run_developer(ctx.feas, SubSeq(df, 1, num_bldgs), nbuildings, ctx),
         LAMBDA new_buildings :
        [subacct |-> subacct, amount |-> amount, df |-> df,
         passed |-> SubSeq(df, 1, num_bldgs),
         new_buildings |-> new_buildings.rows,
         posted |-> BookSubsidies(new_buildings.rows, subacct, ctx.year)]))))

RECURSIVE SubaccountLoop(_, _, _, _, _)
\* the loop of step 6 from the n-th subaccount on: its passes, in order
SubaccountLoop(sas, n, log, nbuildings, ctx) ==
    IF n > Len(sas) THEN <<>>
    ELSE With(SubaccountPass(log, sas[n], nbuildings, ctx), LAMBDA pass :
            <<pass>> \o SubaccountLoop(sas, n + 1, log \o pass.posted,
                                       nbuildings + Len(pass.new_buildings), ctx))

RECURSIVE Concat(_)
Concat(ss) == IF ss = <<>> THEN <<>> ELSE Head(ss) \o Concat(Tail(ss))

\* line 304: new_buildings["subsidized"] = True
TagSubsidized(rows) ==
    [i \in 1..Len(rows) |->
        [building_id |-> rows[i].building_id, parcel_id |-> rows[i].parcel_id,
         max_profit |-> rows[i].max_profit,
         residential_units |-> rows[i].residential_units,
         year_built |-> rows[i].year_built, vmt_res_cat |-> rows[i].vmt_res_cat,
         subsidized |-> "True"]]

\* run_subsidized_developer(feasibility, ..., acct_settings, ..., account, year, ...):
\* the account's log afterwards, the passes of its loop and the rows it hands to
\* summary.add_parcel_output (lines 292-306)
run_subsidized_developer(log, feas, settings, nbuildings, demand, yr) ==
    With(SubaccountLoop(all_subaccounts(log), 1, log, nbuildings,
            [feas |-> feas, cands |-> Candidates(feas, settings),
             settings |-> settings, demand |-> demand, year |-> yr]),
         LAMBDA passes :
        [log |-> log \o Concat([n \in 1..Len(passes) |-> passes[n].posted]),
         passes |-> passes,
         output |-> TagSubsidized(
                        Concat([n \in 1..Len(passes) |-> passes[n].new_buildings]))])

----------------------------------------------------------------------------
(* tax_buildings *)

\* rows of the buildings frame: the value of the sending_buildings_tax expression,
\* the value of the subaccount column (NaN where the geography is missing) and
\* whether the row passes sending_buildings_filter
BuildingRows ==
    [tax : {0, 1, 2}, key : {Num(1), Num(2), NaN}, sends : BOOLEAN]

SortAscending(S) ==
    [i \in 1..Cardinality(S) |-> CHOOSE x \in S : Cardinality({y \in S : y < x}) = i - 1]

\* line 48: buildings.query(sending_buildings_filter)
SendingBuildings(buildings) ==
    LET sends(b) == b.sends
    IN  SelectSeq(buildings, sends)

\* line 54: tax.groupby(subaccounts).sum(): the groups in key order with their
\* sums; pandas' groupby leaves out the rows whose key is NaN
GroupbySum(buildings) ==
    LET keys == SortAscending({buildings[i].key.v :
                                  i \in {j \in 1..Len(buildings) : buildings[j].key.k = "num"}})
    IN  [n \in 1..Len(keys) |->
            [subacct |-> keys[n],
             amt |-> SumSeq([i \in 1..Len(buildings) |->
                        IF buildings[i].key = Num(keys[n]) THEN buildings[i].tax ELSE 0])]]

\* tax_buildings(buildings, acct_settings, account, year): the transactions it posts
tax_buildings(buildings, yr) ==
    LET tot_tax_by_subaccount == GroupbySum(SendingBuildings(buildings))
    IN  [n \in 1..Len(tot_tax_by_subaccount) |->
            Transaction(tot_tax_by_subaccount[n].amt, tot_tax_by_subaccount[n].subacct,
                        [description |-> "Collecting property tax", year |-> yr])]

----------------------------------------------------------------------------
(* State shared by the specifications *)

Accounts == {"prop_tax_acct", "vmt_fee_acct", "obag_acct"}

\* coffer(): three empty accounts
EmptyCoffer == [a \in Accounts |-> <<>>]

NoCall == [op |-> "none"]

\* the injectable years_per_iter: years simulated by one iteration
years_per_iter == 1

\* what the previous call selected, when the previous call was the allocator on
\* the same account (nothing was posted to it in between)
PreviousPasses(account) ==
    IF last.op = "alloc" /\ last.account = account
    THEN [known |-> TRUE, passes |-> last.passes]
    ELSE [known |-> FALSE, passes |-> <<>>]

\* the steps that led to a call of the allocator on account without another step
\* in between: the feasibility step, then the VMT program, then the OBAG program
StepChain(account) ==
    IF account = "vmt_fee_acct" /\ last.op = "feasibility"
    THEN "feasibility_vmt"
    ELSE IF account = "obag_acct" /\ last.op = "alloc" /\ last.chain = "feasibility_vmt"
         THEN "feasibility_vmt_obag"
         ELSE "other"

\* the building ids of the subsidy transactions among txns
BookedBuildings(txns) ==
    {txns[i].metadata.building_id :
        i \in {j \in 1..Len(txns) :
                  txns[j].metadata.description = "Developing subsidized building"}}

\* the parcels on which the VMT step of the chain built and booked a subsidy
ChainParcels(account, r) ==
    IF StepChain(account) = "feasibility_vmt"
    THEN {r.output[i].parcel_id :
            i \in {j \in 1..Len(r.output) :
                      r.output[j].building_id \in
                         BookedBuildings(SubSeq(r.log, Len(coffer[account]) + 1, Len(r.log)))}}
    ELSE IF StepChain(account) = "feasibility_vmt_obag" THEN last.vmt_parcels ELSE {}

\* the record of a call of run_subsidized_developer on account, r its result
AllocCall(account, settings, r) ==
    [op |-> "alloc", account |-> account, settings |-> settings,
     before |-> Len(coffer[account]),
     start |-> iter_subaccounts(coffer[account]), passes |-> r.passes,
     output |-> r.output, previous |-> PreviousPasses(account),
     chain |-> StepChain(account), vmt_parcels |-> ChainParcels(account, r)]

----------------------------------------------------------------------------
(* SpecTax: calls of tax_buildings on the property tax account *)

InitTax ==
    /\ coffer = EmptyCoffer
    /\ feasibility = <<>>
    /\ acct_settings = [sending_buildings_subaccount_def |-> "juris",
                        receiving_buildings_filter |-> "zone"]
    /\ parcel_output = <<>>
    /\ year = 1
    /\ last = NoCall

\* the step property_taxes: tax_buildings on coffer["prop_tax_acct"], until the
\* year's tax is collected
property_taxes ==
    /\ \A i \in 1..Len(coffer["prop_tax_acct"]) :
          coffer["prop_tax_acct"][i].metadata.year # year
    /\ \E buildings \in [1..NumBuildings -> BuildingRows] :
       \E posted \in {tax_buildings(buildings, year)} :
          /\ Len(coffer["prop_tax_acct"]) + Len(posted) <= MaxTxns
          /\ coffer' = [coffer EXCEPT !["prop_tax_acct"] = @ \o posted]
          /\ last' = [op |-> "tax", account |-> "prop_tax_acct",
                      before |-> Len(coffer["prop_tax_acct"]), buildings |-> buildings]
          /\ UNCHANGED <<feasibility, acct_settings, parcel_output, year>>

\* the simulation moves on to its next iteration
next_iteration ==
    /\ year < MaxYear
    /\ year' = year + years_per_iter
    /\ last' = [op |-> "iteration"]
    /\ UNCHANGED <<coffer, feasibility, acct_settings, parcel_output>>

NextTax ==
    \/ property_taxes
    \/ next_iteration

SpecTax == InitTax /\ [][NextTax]_vars

----------------------------------------------------------------------------
(* SpecFn: run_subsidized_developer called on an account that holds the    *)
(* revenue of one tax_buildings call, with several subaccounts              *)

SettingsChoices ==
    [sending_buildings_subaccount_def : {"juris", "regional"},
     receiving_buildings_filter : {"none", "zone"}]

StartLogs == {tax_buildings(buildings, 1) : buildings \in [1..NumBuildings -> BuildingRows]}

InitFn ==
    /\ coffer \in {[EmptyCoffer EXCEPT !["prop_tax_acct"] = log] : log \in StartLogs}
    /\ feasibility \in FeasibilityTables
    /\ acct_settings \in SettingsChoices
    /\ parcel_output = <<>>
    /\ year = 1
    /\ last = NoCall

\* run_subsidized_developer(feasibility, ..., acct_settings, ...,
\* coffer["prop_tax_acct"], year, ..., summary)
CallSubsidizedDeveloper ==
    \E demand \in SUBSET Candidates(feasibility, acct_settings) :
    \E r \in {run_subsidized_developer(coffer["prop_tax_acct"], feasibility,
                 acct_settings, Len(parcel_output), demand, year)} :
        /\ Len(r.log) <= MaxTxns
        /\ coffer' = [coffer EXCEPT !["prop_tax_acct"] = r.log]
        /\ parcel_output' = parcel_output \o r.output
        /\ last' = AllocCall("prop_tax_acct", acct_settings, r)
        /\ UNCHANGED <<feasibility, acct_settings, year>>

NextFn == CallSubsidizedDeveloper

SpecFn == InitFn /\ [][NextFn]_vars

----------------------------------------------------------------------------
(* calculate_vmt_fees and add_obag_funds *)

\* settings["acct_settings"] of the simulation run
PipelineSettings ==
    [vmt_settings |->
        [sending_buildings_subaccount_def |-> "regional",
         receiving_buildings_filter |-> "zone",
         fee_amounts |-> [S |-> 1, M |-> 2]],
     obag_settings |->
        [sending_buildings_subaccount_def |-> "regional",
         receiving_buildings_filter |-> "none",
         total_amount |-> 3]]

\* VmtFeeBuildings without the test of the subsidized tag
VmtFeeBuildingsAll(output, yr) ==
    LET inwindow(b) == yr <= b.year_built /\ b.year_built < yr + years_per_iter
    IN  SelectSeq(output, inwindow)

\* lines 93-96: the rows of summary.parcel_output with
\* year <= year_built < year + years_per_iter and subsidized != True
VmtFeeBuildings(output, yr) ==
    LET qualifies(b) == /\ yr <= b.year_built
                        /\ b.year_built < yr + years_per_iter
                        /\ b.subsidized # "True"
    IN  SelectSeq(output, qualifies)

\* lines 103-105: (df.res_fees * df.residential_units).sum()
TotalVmtFees(df, vmt_settings) ==
    SumSeq([i \in 1..Len(df) |->
              vmt_settings.fee_amounts[df[i].vmt_res_cat] * df[i].residential_units])

\* VmtFeeTransactions without the early return of lines 98-99
VmtFeeTransactionsAlways(output, vmt_settings, yr) ==
    <<Transaction(TotalVmtFees(VmtFeeBuildings(output, yr), vmt_settings), 1,
                  [description |-> "VMT development fees", year |-> yr])>>

\* calculate_vmt_fees: the transactions it posts to coffer["vmt_fee_acct"]
VmtFeeTransactions(output, vmt_settings, yr) ==
    With(VmtFeeBuildings(output, yr), LAMBDA df :
        IF Len(df) = 0 THEN <<>>
        ELSE <<Transaction(TotalVmtFees(df, vmt_settings), 1,
                           [description |-> "VMT development fees", year |-> yr])>>)

\* add_obag_funds: the transaction it posts to coffer["obag_acct"]
ObagFundsTransaction(obag_settings, yr) ==
    Transaction(obag_settings.total_amount * years_per_iter, 1,
                [description |-> "OBAG regional subsidies", year |-> yr])

----------------------------------------------------------------------------
(* Spec: the orca steps of the simulation years, in any order *)

Init ==
    /\ coffer = EmptyCoffer
    /\ feasibility = <<>>
    /\ acct_settings = PipelineSettings
    /\ parcel_output = <<>>
    /\ year = 1
    /\ last = NoCall

\* step add_obag_funds
add_obag_funds ==
    /\ Len(coffer["obag_acct"]) < MaxTxns
    /\ coffer' = [coffer EXCEPT !["obag_acct"] =
                     Append(@, ObagFundsTransaction(acct_settings.obag_settings, year))]
    /\ last' = [op |-> "obag_funds"]
    /\ UNCHANGED <<feasibility, acct_settings, parcel_output, year>>

\* step calculate_vmt_fees
calculate_vmt_fees ==
    \E posted \in {VmtFeeTransactions(parcel_output, acct_settings.vmt_settings, year)} :
        /\ Len(coffer["vmt_fee_acct"]) + Len(posted) <= MaxTxns
        /\ coffer' = [coffer EXCEPT !["vmt_fee_acct"] = @ \o posted]
        /\ last' = [op |-> "vmt_fees", account |-> "vmt_fee_acct", coffer |-> coffer,
                    before |-> Len(coffer["vmt_fee_acct"])]
        /\ UNCHANGED <<feasibility, acct_settings, parcel_output, year>>

\* the tables of a simulation year: either every parcel needs a subsidy of 1 for
\* one more unit, or none has a numeric loss (zero profit on odd parcels, NaN on
\* even ones)
YearTables ==
    {[p \in Parcels |->
        [max_profit |-> IF p \in S THEN Num(-1) ELSE IF p % 2 = 1 THEN Num(0) ELSE NaN,
         residential_sqft |-> IF p \in S THEN 3 ELSE 4,
         total_residential_units |-> 0]] : S \in {{}, Parcels}}

\* step subsidized_residential_feasibility: utils.run_feasibility writes the
\* table, the step reshapes it, joins parcels_geography and stores it again
subsidized_residential_feasibility ==
    /\ feasibility' \in YearTables
    /\ last' = [op |-> "feasibility"]
    /\ UNCHANGED <<coffer, acct_settings, parcel_output, year>>

\* the steps subsidized_residential_developer_vmt and _obag: run_subsidized_developer
\* on the stored table with the program's settings and account
SubsidizedDeveloperStep(account, settings) ==
    /\ feasibility # <<>>
    /\ \E demand \in SUBSET Candidates(feasibility, settings) :
       \E r \in {run_subsidized_developer(coffer[account], feasibility, settings,
                    Len(parcel_output), demand, year)} :
          /\ Len(r.log) <= MaxTxns
          /\ coffer' = [coffer EXCEPT ![account] = r.log]
          /\ parcel_output' = parcel_output \o r.output
          /\ last' = AllocCall(account, settings, r)
          /\ UNCHANGED <<feasibility, acct_settings, year>>

subsidized_residential_developer_vmt ==
    SubsidizedDeveloperStep("vmt_fee_acct", acct_settings.vmt_settings)

subsidized_residential_developer_obag ==
    SubsidizedDeveloperStep("obag_acct", acct_settings.obag_settings)

\* the rows of the summary that no subsidy paid for, built in year yr
MarketBuildings(output, yr) ==
    LET market(b) == b.subsidized # "True" /\ b.year_built = yr
    IN  SelectSeq(output, market)

\* another step of the simulation builds the year's market rate building, on
\* parcel p, and adds it to the summary, without the subsidized column
residential_developer ==
    \E p \in Parcels :
        /\ MarketBuildings(parcel_output, year) = <<>>
        /\ parcel_output' = Append(parcel_output,
              [building_id |-> Len(parcel_output) + 1, parcel_id |-> p,
               max_profit |-> 1, residential_units |-> 1, year_built |-> year,
               vmt_res_cat |-> vmt_res_cat(p), subsidized |-> "NaN"])
        /\ last' = [op |-> "developer"]
        /\ UNCHANGED <<coffer, feasibility, acct_settings, year>>

Next ==
    \/ add_obag_funds
    \/ calculate_vmt_fees
    \/ subsidized_residential_feasibility
    \/ subsidized_residential_developer_vmt
    \/ subsidized_residential_developer_obag
    \/ residential_developer
    \/ next_iteration

Spec == Init /\ [][Next]_vars

----------------------------------------------------------------------------
(* SpecVmt: the steps of the VMT fee program alone, in any order *)

NextVmt ==
    \/ calculate_vmt_fees
    \/ subsidized_residential_feasibility
    \/ subsidized_residential_developer_vmt
    \/ residential_developer
    \/ next_iteration

SpecVmt == Init /\ [][NextVmt]_vars

----------------------------------------------------------------------------
(* Properties of one call, read from the record of the call and the account *)

\* the transactions the last call posted to its account
PostedInCall ==
    SubSeq(coffer[last.account], last.before + 1, Len(coffer[last.account]))

\* the subsidy the last call booked to subaccount sa: the sum of -max_profit
SubsidyBooked(sa) ==
    SumSeq([i \in 1..Len(PostedInCall) |->
              IF PostedInCall[i].subaccount = sa THEN -PostedInCall[i].amount ELSE 0])

PostedTo(sa) ==
    LET to(t) == t.subaccount = sa
    IN  SelectSeq(PostedInCall, to)

IsPrefix(s, t) == Len(s) <= Len(t) /\ SubSeq(t, 1, Len(s)) = s

\* the subsidy per unit of p has a strictly larger magnitude than that of q
LargerMagnitude(p, q) ==
    (-feasibility[p].max_profit.v) * (feasibility[q].residential_sqft \div ave_sqft_per_unit(q))
      > (-feasibility[q].max_profit.v) * (feasibility[p].residential_sqft \div ave_sqft_per_unit(p))

\* C1: in every call of run_subsidized_developer, for every subaccount that
\* iter_subaccounts reported at the start of the call, the subsidy booked to it
\* during the call is at most the balance reported for it.
C1_SubsidyWithinBalance ==
    last.op = "alloc" =>
        \A n \in 1..Len(last.start) :
            SubsidyBooked(last.start[n].subacct) <= last.start[n].amount

\* a call that booked two buildings to one subaccount
C1_Witness ==
    /\ last.op = "alloc"
    /\ \E n \in 1..Len(last.start) :
          /\ Len(PostedTo(last.start[n].subacct)) = 2
          /\ SubsidyBooked(last.start[n].subacct) > 0

\* C2: for each subaccount with a candidate, the selection is the maximal prefix
\* of the sorted candidates whose cumulative cost does not exceed the balance, so
\* a candidate that brings the cumulative cost exactly to the balance is selected.
C2_MaximalPrefixWithinBalance ==
    last.op = "alloc" =>
        \A n \in 1..Len(last.passes) :
            LET pass == last.passes[n]
            IN  Len(pass.df) > 0 =>
                  /\ IsPrefix(pass.passed, pass.df)
                  /\ Len(pass.passed) =
                        Cardinality({i \in 1..Len(pass.df) :
                            CumCost(feasibility, pass.df, i) <= pass.amount})

\* C3: within each subaccount the candidates are ordered from the least negative
\* subsidy per unit to the most negative, the selection is a prefix of that order,
\* and no selected candidate has a strictly larger subsidy per unit magnitude than
\* an unselected candidate of the same subaccount.
C3_CheapestPerUnitFirst ==
    last.op = "alloc" =>
        \A n \in 1..Len(last.passes) :
            LET pass == last.passes[n]
                mine == {p \in Candidates(feasibility, last.settings) :
                            subaccount(last.settings, p) = pass.subacct}
                selected == {pass.passed[i] : i \in 1..Len(pass.passed)}
            IN  /\ {pass.df[i] : i \in 1..Len(pass.df)} = mine
                /\ \A i, j \in 1..Len(pass.df) :
                      i < j => ~LargerMagnitude(pass.df[i], pass.df[j])
                /\ IsPrefix(pass.passed, pass.df)
                /\ \A p \in selected, q \in mine \ selected : ~LargerMagnitude(p, q)

\* a subaccount where the cut fell between two candidates of different subsidy
\* per unit
C3_Witness ==
    /\ last.op = "alloc"
    /\ \E n \in 1..Len(last.passes) :
          LET pass == last.passes[n]
          IN  /\ Len(pass.passed) > 0
              /\ Len(pass.df) > Len(pass.passed)
              /\ LargerMagnitude(pass.df[Len(pass.df)], pass.passed[1])

\* C4: every proposal passed to utils.run_developer has a finite, strictly negative
\* max_profit and floor(residential_sqft / ave_sqft_per_unit) above the parcel's
\* total_residential_units, whatever the receiving filter and subaccount mapping.
C4_OnlySubsidyCandidatesPassed ==
    last.op = "alloc" =>
        \A n \in 1..Len(last.passes) :
            \A i \in 1..Len(last.passes[n].passed) :
                LET row == feasibility[last.passes[n].passed[i]]
                IN  /\ row.max_profit.k = "num"
                    /\ row.max_profit.v < 0
                    /\ row.residential_sqft \div ave_sqft_per_unit(last.passes[n].passed[i])
                          > row.total_residential_units

\* a call that passed a proposal on while the table held a row of -inf profit
C4_Witness ==
    /\ last.op = "alloc"
    /\ \E n \in 1..Len(last.passes) : Len(last.passes[n].passed) > 0
    /\ \E p \in DOMAIN feasibility : feasibility[p].max_profit = NegInf

\* C5: the transactions a call posts correspond one to one to the buildings the
\* construction routine returned: one per building, of amount its max_profit, on
\* the subaccount of the pass that submitted it; a pass that built nothing posts
\* nothing.
C5_OneTransactionPerBuilding ==
    last.op = "alloc" =>
        /\ Len(PostedInCall) =
              SumSeq([n \in 1..Len(last.passes) |-> Len(last.passes[n].new_buildings)])
        /\ \A n \in 1..Len(last.passes) :
              LET built == last.passes[n].new_buildings
                  txns == PostedTo(last.passes[n].subacct)
              IN  /\ Len(txns) = Len(built)
                  /\ \A i \in 1..Len(built) :
                        /\ txns[i].amount = built[i].max_profit
                        /\ txns[i].amount < 0
                        /\ txns[i].metadata.building_id = built[i].building_id

\* a pass on subaccount 2 that selected a candidate and built it, and a pass that
\* built nothing
C5_Witness ==
    /\ last.op = "alloc"
    /\ \E n \in 1..Len(last.passes) :
          /\ last.passes[n].subacct = 2
          /\ Len(last.passes[n].new_buildings) = 1
    /\ \E n \in 1..Len(last.passes) : Len(last.passes[n].new_buildings) = 0

\* C7: when the allocator is called twice in sequence on the same account with
\* the same table and nothing posted in between, each subaccount's selection in
\* the second call is a prefix of its selection in the first.
C7_SecondSelectionIsPrefix ==
    (last.op = "alloc" /\ last.previous.known) =>
        /\ Len(last.passes) = Len(last.previous.passes)
        /\ \A n \in 1..Len(last.passes) :
              /\ last.passes[n].subacct = last.previous.passes[n].subacct
              /\ IsPrefix(last.passes[n].passed, last.previous.passes[n].passed)

\* a second call that selected strictly less than the first
C7_Witness ==
    /\ last.op = "alloc"
    /\ last.previous.known
    /\ \E n \in 1..Len(last.passes) :
          Len(last.passes[n].passed) < Len(last.previous.passes[n].passed)

\* C6: one call of tax_buildings posts one transaction per distinct subaccount
\* among the buildings that pass the sending filter, and the amounts it posts sum
\* to the tax of all buildings that pass the filter, whatever their subaccount key.
C6_TaxConserved ==
    last.op = "tax" =>
        LET sending == {i \in 1..Len(last.buildings) : last.buildings[i].sends}
        IN  /\ Len(PostedInCall) = Cardinality({last.buildings[i].key : i \in sending})
            /\ SumSeq([i \in 1..Len(PostedInCall) |-> PostedInCall[i].amount])
                  = SumSeq([i \in 1..Len(last.buildings) |->
                              IF i \in sending THEN last.buildings[i].tax ELSE 0])

----------------------------------------------------------------------------
(* Properties of the yearly steps *)

\* the rows of the summary built in the window of the current year
InWindow ==
    {i \in 1..Len(parcel_output) :
        /\ year <= parcel_output[i].year_built
        /\ parcel_output[i].year_built < year + years_per_iter}

\* the building ids some account paid a subsidy for
SubsidyPaid == UNION {BookedBuildings(coffer[a]) : a \in Accounts}

\* C8: when the summary holds no building of the year window that is not tagged
\* subsidized, calculate_vmt_fees posts nothing and leaves every account of the
\* coffer unchanged; otherwise it posts exactly one transaction, to subaccount 1
\* of the VMT fee account, and leaves the other accounts unchanged.
C8_VmtFeesNoOpOrOneTransaction ==
    last.op = "vmt_fees" =>
        IF \A i \in InWindow : parcel_output[i].subsidized = "True"
        THEN coffer = last.coffer
        ELSE /\ Len(coffer["vmt_fee_acct"]) = Len(last.coffer["vmt_fee_acct"]) + 1
             /\ IsPrefix(last.coffer["vmt_fee_acct"], coffer["vmt_fee_acct"])
             /\ coffer["vmt_fee_acct"][Len(coffer["vmt_fee_acct"])].subaccount = 1
             /\ \A a \in Accounts \ {"vmt_fee_acct"} : coffer[a] = last.coffer[a]

\* a call of calculate_vmt_fees that posted nothing although the account holds
\* transactions and the year window holds a building, a subsidized one
C8_Witness ==
    /\ last.op = "vmt_fees"
    /\ coffer = last.coffer
    /\ coffer["vmt_fee_acct"] # <<>>
    /\ InWindow # {}
    /\ \A i \in InWindow : parcel_output[i].subsidized = "True"

\* C9: every building a subsidy transaction paid for is in the summary tagged
\* subsidized = True, and the amount a call of calculate_vmt_fees posts is the sum
\* of fee times units over the buildings of the year window that no subsidy paid
\* for: a subsidized building never adds to it.
C9_SubsidizedNeverCharged ==
    /\ \A id \in SubsidyPaid :
          /\ \E i \in 1..Len(parcel_output) : parcel_output[i].building_id = id
          /\ \A i \in 1..Len(parcel_output) :
                parcel_output[i].building_id = id => parcel_output[i].subsidized = "True"
    /\ last.op = "vmt_fees" =>
          SumSeq([i \in 1..Len(PostedInCall) |-> PostedInCall[i].amount])
            = SumSeq([i \in 1..Len(parcel_output) |->
                 IF i \in InWindow /\ parcel_output[i].building_id \notin SubsidyPaid
                 THEN acct_settings.vmt_settings.fee_amounts[parcel_output[i].vmt_res_cat]
                         * parcel_output[i].residential_units
                 ELSE 0])

\* a call of calculate_vmt_fees that posted a fee while the year window held a
\* subsidized building next to a market rate one
C9_Witness ==
    /\ last.op = "vmt_fees"
    /\ Len(PostedInCall) = 1
    /\ \E i \in InWindow : parcel_output[i].building_id \in SubsidyPaid
    /\ \E i \in InWindow : parcel_output[i].building_id \notin SubsidyPaid

\* C10: when subsidized_residential_feasibility is followed by
\* subsidized_residential_developer_vmt and then
\* subsidized_residential_developer_obag, no parcel is built and booked as a
\* subsidy expenditure by both the VMT program and the OBAG program.
C10_NoParcelSubsidizedTwice ==
    (last.op = "alloc" /\ last.chain = "feasibility_vmt_obag") =>
        \A i \in 1..Len(last.output) :
            last.output[i].building_id \in BookedBuildings(PostedInCall)
                => last.output[i].parcel_id \notin last.vmt_parcels

====
